---- MODULE Spec2Model ----
(***************************************************************************)
(* Shoe inventory CLI (inventory.py): the Shoe objects, the global         *)
(* shoe_list, the backing file inventory.txt and the menu loop with its    *)
(* prompts.  Text is a sequence of one-character strings, so that strip,   *)
(* upper, title, split and int are computed as Python computes them.       *)
(* shoe_list holds references into a heap of Shoe objects, because         *)
(* sorted() and the write-back in re_stock share objects, not copies.      *)
(***************************************************************************)
EXTENDS Integers, Sequences, FiniteSets, TLC

VARIABLES
    pc,                 \* where the program is: load, menu, a prompt, done, crashed
    shoe_list,          \* the global list: a sequence of references to Shoe objects
    heap,               \* the Shoe objects that are referenced, by reference
    file,               \* inventory.txt: whether it exists, and its lines
    country, code, product, cost,   \* locals of capture_shoes read so far
    lowest_stock_shoe,  \* local of re_stock: the reference selected
    last_input,         \* the line most recently read from standard input
    out                 \* the message most recently printed

vars == <<pc, shoe_list, heap, file, country, code, product, cost,
          lowest_stock_shoe, last_input, out>>

----------------------------------------------------------------------------
(* Bounds of the model *)

\* capture_shoes is offered only while the list is shorter than this
MaxShoes == 2

\* a restock is taken only while the new quantity stays within this
MaxQuantity == 7

----------------------------------------------------------------------------
(* Characters and text *)

LowerLetters == <<"a","b","c","d","e","f","g","h","i","j","k","l","m",
                  "n","o","p","q","r","s","t","u","v","w","x","y","z">>
UpperLetters == <<"A","B","C","D","E","F","G","H","I","J","K","L","M",
                  "N","O","P","Q","R","S","T","U","V","W","X","Y","Z">>
DigitChars == <<"0","1","2","3","4","5","6","7","8","9">>

Range(s) == {s[i] : i \in DOMAIN s}

IsLower(c) == c \in Range(LowerLetters)
IsUpper(c) == c \in Range(UpperLetters)
IsLetter(c) == IsLower(c) \/ IsUpper(c)
IsDigit(c) == c \in Range(DigitChars)
\* the characters str.strip() removes
IsSpace(c) == c \in {" ", "\t", "\n", "\r"}

IndexIn(c, s) == CHOOSE i \in DOMAIN s : s[i] = c

upper_char(c) == IF IsLower(c) THEN UpperLetters[IndexIn(c, LowerLetters)] ELSE c
lower_char(c) == IF IsUpper(c) THEN LowerLetters[IndexIn(c, UpperLetters)] ELSE c

upper(s) == [i \in DOMAIN s |-> upper_char(s[i])]
lower(s) == [i \in DOMAIN s |-> lower_char(s[i])]

\* str.title(): a letter after a letter is lowered, any other letter is raised
title(s) == [i \in DOMAIN s |->
               IF i > 1 /\ IsLetter(s[i-1]) THEN lower_char(s[i]) ELSE upper_char(s[i])]

RECURSIVE lstrip(_)
lstrip(s) == IF s # <<>> /\ IsSpace(Head(s)) THEN lstrip(Tail(s)) ELSE s

RECURSIVE rstrip(_)
rstrip(s) == IF s # <<>> /\ IsSpace(s[Len(s)])
             THEN rstrip(SubSeq(s, 1, Len(s) - 1)) ELSE s

strip(s) == rstrip(lstrip(s))

\* s.replace(" ", "")
replace_spaces(s) == SelectSeq(s, LAMBDA c : c # " ")

\* str.isalpha(): non-empty and letters only
isalpha(s) == s # <<>> /\ \A i \in DOMAIN s : IsLetter(s[i])

\* re.fullmatch(r"SKU\d+", s)
fullmatch_SKU_digits(s) ==
    /\ Len(s) >= 4
    /\ SubSeq(s, 1, 3) = <<"S","K","U">>
    /\ \A i \in 4..Len(s) : IsDigit(s[i])

\* s.split(","): the fields between the commas, at least one
RECURSIVE split(_)
split(s) ==
    IF \E i \in DOMAIN s : s[i] = ","
    THEN LET k == CHOOSE i \in DOMAIN s :
                     s[i] = "," /\ \A j \in 1..(i-1) : s[j] # ","
         IN  <<SubSeq(s, 1, k - 1)>> \o split(SubSeq(s, k + 1, Len(s)))
    ELSE <<s>>

RECURSIVE digits_value(_)
digits_value(s) ==
    IF s = <<>> THEN 0
    ELSE 10 * digits_value(SubSeq(s, 1, Len(s) - 1))
         + (IndexIn(s[Len(s)], DigitChars) - 1)

\* int(s) accepts surrounding white space, one optional sign, then digits
int_body(s) == IF s # <<>> /\ Head(s) \in {"+", "-"} THEN Tail(s) ELSE s

int_valid(s) ==
    LET b == int_body(strip(s))
    IN  b # <<>> /\ \A i \in DOMAIN b : IsDigit(b[i])

\* the value of int(s) when it raises no ValueError
int_value(s) ==
    LET t == strip(s)
    IN  IF t # <<>> /\ Head(t) = "-" THEN 0 - digits_value(int_body(t))
        ELSE digits_value(int_body(t))

\* str(n) of an integer, as an f-string renders it
RECURSIVE nat_str(_)
nat_str(n) == IF n < 10 THEN <<DigitChars[n + 1]>>
              ELSE nat_str(n \div 10) \o <<DigitChars[(n % 10) + 1]>>

int_str(n) == IF n < 0 THEN <<"-">> \o nat_str(0 - n) ELSE nat_str(n)

----------------------------------------------------------------------------
(* Shoe objects, the list and the heap *)

\* Shoe.__init__: cost and quantity arrive as integers and int() keeps them
Shoe(country_, code_, product_, cost_, quantity_) ==
    [country |-> country_, code |-> code_, product |-> product_,
     cost |-> cost_, quantity |-> quantity_]

\* Shoe.get_quantity, the sort key, of a referenced object
get_quantity(ref) == heap[ref].quantity

\* f"R{cost:,.2f}" of an integer below 1000 in size (no thousands separator)
format_cost(n) == <<"R">> \o int_str(n) \o <<".","0","0">>

\* Shoe.__str__: the values the printed line shows
str_shoe(shoe) ==
    [country |-> shoe.country, code |-> shoe.code, product |-> shoe.product,
     cost |-> format_cost(shoe.cost), quantity |-> int_str(shoe.quantity)]

NoRef == 0
NoText == <<>>
NoInput == <<"<no input read>">>
EmptyHeap == [r \in {} |-> 0]

\* the reference of a newly created object: the smallest one not in use
new_ref(hp) ==
    CHOOSE r \in 1..(Cardinality(DOMAIN hp) + 1) :
        r \notin DOMAIN hp /\ \A q \in 1..(r - 1) : q \in DOMAIN hp

alloc(hp, r, shoe) == [q \in (DOMAIN hp) \cup {r} |-> IF q = r THEN shoe ELSE hp[q]]

\* objects no longer referenced by the list are freed
collect(hp, list) == [r \in Range(list) |-> hp[r]]

\* list.append with the order reversed (insert at the front)
list_append_front(list, ref) == <<ref>> \o list

\* list.append
list_append(list, ref) == Append(list, ref)

\* the Records of the store, in list order
Store == [i \in DOMAIN shoe_list |-> heap[shoe_list[i]]]

----------------------------------------------------------------------------
(* The backing file *)

Header ==
    <<"C","o","u","n","t","r","y",",","C","o","d","e",",","P","r","o","d","u","c","t",",","C","o","s","t",",","Q","u","a","n","t","i","t","y","\n">>

\* "ZA,SKU1,Nike,10,5"
Line_ZA ==
    <<"Z","A",",","S","K","U","1",",","N","i","k","e",",","1","0",",","5","\n">>
\* "UK,SKU1,Puma,20,1": the code of Line_ZA again, with the lower quantity
Line_UK ==
    <<"U","K",",","S","K","U","1",",","P","u","m","a",",","2","0",",","1","\n">>
\* " Us,sku2,Fila,03,-2 ": padded, a lower-case code, a negative quantity
Line_Us ==
    <<" ","U","s",",","s","k","u","2",",","F","i","l","a",",","0","3",",","-","2"," ","\n">>
\* "UK,SKU3,Puma,ab,1": the cost is no integer
Line_Bad ==
    <<"U","K",",","S","K","U","3",",","P","u","m","a",",","a","b",",","1","\n">>

NoFile == [exists |-> FALSE, lines |-> <<>>]
FileOf(lines) == [exists |-> TRUE, lines |-> lines]

\* files of the documented format: the header, then five-field lines
ValidFiles ==
    { FileOf(<<Header>>),
      FileOf(<<Header, Line_ZA>>),
      FileOf(<<Header, Line_ZA, Line_UK>>),
      FileOf(<<Header, Line_Us>>),
      FileOf(<<Header, Line_UK, Line_Us>>),
      FileOf(<<Header, Line_UK, Line_ZA, Line_ZA>>) }

\* what inventory.txt may be at start: missing, without any line, valid,
\* or with a line the loader cannot read
InitialFiles ==
    ValidFiles \cup { NoFile, FileOf(<<>>), FileOf(<<Header, Line_ZA, Line_Bad>>) }

\* the loop body with cost and quantity read from the wrong fields
parse_line_swapped(line) ==
    LET line_split_up == split(strip(line))
    IN  Shoe(line_split_up[1], line_split_up[2], line_split_up[3],
             int_value(line_split_up[5]), int_value(line_split_up[4]))

\* the loop body of read_shoes_data for a line that raises nothing
parse_line(line) ==
    LET line_split_up == split(strip(line))
    IN  Shoe(line_split_up[1], line_split_up[2], line_split_up[3],
             int_value(line_split_up[4]), int_value(line_split_up[5]))

\* what the loop body raises on a line: IndexError, ValueError or nothing
line_raises(line) ==
    LET line_split_up == split(strip(line))
    IN  IF Len(line_split_up) < 5 THEN "IndexError"
        ELSE IF ~int_valid(line_split_up[4]) \/ ~int_valid(line_split_up[5])
             THEN "ValueError"
             ELSE "none"

\* the for loop of read_shoes_data: appends until a line raises
RECURSIVE read_lines(_, _, _)
read_lines(lines, list, hp) ==
    IF lines = <<>> THEN [list |-> list, heap |-> hp, raised |-> "none"]
    ELSE IF line_raises(Head(lines)) # "none"
         THEN [list |-> list, heap |-> hp, raised |-> line_raises(Head(lines))]
         ELSE LET r == new_ref(hp)
              IN  read_lines(Tail(lines), list_append(list, r),
                             alloc(hp, r, parse_line(Head(lines))))

\* one line of the file as re_stock writes it
write_line(shoe) ==
    shoe.country \o <<",">> \o shoe.code \o <<",">> \o shoe.product \o <<",">>
    \o int_str(shoe.cost) \o <<",">> \o int_str(shoe.quantity) \o <<"\n">>

\* the rewrite without the header line
inventory_lines_no_header(list, hp) ==
    [i \in DOMAIN list |-> write_line(hp[list[i]])]

\* the lines re_stock writes: the header, then one line per list entry
inventory_lines(list, hp) ==
    <<Header>> \o [i \in DOMAIN list |-> write_line(hp[list[i]])]

----------------------------------------------------------------------------
(* Sorting *)

Reverse(s) == [i \in DOMAIN s |-> s[Len(s) + 1 - i]]

\* x placed after every entry whose quantity is not above its own
insert_by_quantity(s, x) ==
    LET k == Cardinality({i \in DOMAIN s : get_quantity(s[i]) <= get_quantity(x)})
    IN  SubSeq(s, 1, k) \o <<x>> \o SubSeq(s, k + 1, Len(s))

\* the stable ascending sort by quantity
RECURSIVE sort_by_quantity(_)
sort_by_quantity(list) ==
    IF list = <<>> THEN <<>>
    ELSE insert_by_quantity(sort_by_quantity(SubSeq(list, 1, Len(list) - 1)),
                            list[Len(list)])

\* a descending order obtained by reversing the ascending one: not stable
sorted_unstable(list, reverse) ==
    IF reverse THEN Reverse(sort_by_quantity(list)) ELSE sort_by_quantity(list)

\* sorted(list, key=Shoe.get_quantity, reverse=...): stable in both directions
sorted(list, reverse) ==
    IF reverse THEN Reverse(sort_by_quantity(Reverse(list)))
    ELSE sort_by_quantity(list)

----------------------------------------------------------------------------
(* Standard input and output *)

Message(msg) == [msg |-> msg, shoes |-> <<>>]
Shown(msg, shoes) == [msg |-> msg, shoes |-> shoes]
NoOutput == Message("")

MenuInputs ==
    { <<"1">>, <<"2">>, <<"3">>, <<"4">>, <<"5">>, <<"6">>, <<"7">>,
      <<"8">>, <<"0">>, <<"a">> }
\* " za ", "z1", "", "x", "X"
CountryInputs == { <<" ","z","a"," ">>, <<"z","1">>, <<>>, <<"x">>, <<"X">> }
\* "sku1", "SKU2", "SKU", "x", "X"
CodeInputs == { <<"s","k","u","1">>, <<"S","K","U","2">>, <<"S","K","U">>,
                <<"x">>, <<"X">> }
\* "nike", "n1", "x", "X"
ProductInputs == { <<"n","i","k","e">>, <<"n","1">>, <<"x">>, <<"X">> }
\* "10", "-1", "a", "x", "X"
CostInputs == { <<"1","0">>, <<"-","1">>, <<"a">>, <<"x">>, <<"X">> }
\* "5", "0", "-1", "a", "x", "X"
QuantityInputs == { <<"5">>, <<"0">>, <<"-","1">>, <<"a">>, <<"x">>, <<"X">> }
\* "Y", " y ", "N", ""
ConfirmInputs == { <<"Y">>, <<" ","y"," ">>, <<"N">>, <<>> }
\* "0", "2", "-1", " x", "x", "X"
AmountInputs == { <<"0">>, <<"2">>, <<"-","1">>, <<" ","x">>, <<"x">>, <<"X">> }
\* "SKU1", "sku2", " sku2 ", "SKU9"
SearchInputs == { <<"S","K","U","1">>, <<"s","k","u","2">>,
                  <<" ","s","k","u","2"," ">>, <<"S","K","U","9">> }

\* the comparison without lower(): only a lower-case x cancels
cancel_capture_exact(user_input) == user_input = <<"x">>

\* cancel_capture
cancel_capture(user_input) == lower(user_input) = <<"x">>

\* the sign test with negatives let through
negative_never(n) == FALSE

\* the tests cost < 0, quantity < 0 and restock_amount < 0
negative(n) == n < 0

\* the scan of search_shoe taking the last match
find_last(list, hp, shoe_code) ==
    LET hits == {i \in DOMAIN list : hp[list[i]].code = shoe_code}
    IN  IF hits = {} THEN 0 ELSE CHOOSE i \in hits : \A j \in hits : j <= i

\* the scans of search_shoe and re_stock: the first index whose code is equal
find_first(list, hp, shoe_code) ==
    LET hits == {i \in DOMAIN list : hp[list[i]].code = shoe_code}
    IN  IF hits = {} THEN 0 ELSE CHOOSE i \in hits : \A j \in hits : i <= j

NoLocals ==
    /\ country' = NoText /\ code' = NoText /\ product' = NoText /\ cost' = 0
    /\ lowest_stock_shoe' = NoRef

Locals == <<country, code, product, cost, lowest_stock_shoe>>
Data == <<shoe_list, heap, file>>

\* an exception no handler catches ends the process with its traceback
Raise(exception) ==
    /\ pc' = "crashed"
    /\ out' = Message(exception)
    /\ UNCHANGED <<Data, Locals>>

----------------------------------------------------------------------------
(* The program *)

Init ==
    /\ pc = "load"
    /\ shoe_list = <<>>
    /\ heap = EmptyHeap
    /\ file \in InitialFiles
    /\ country = NoText /\ code = NoText /\ product = NoText /\ cost = 0
    /\ lowest_stock_shoe = NoRef
    /\ last_input = NoInput
    /\ out = NoOutput

\* read_shoes_data(), called once before the menu loop
read_shoes_data ==
    /\ pc = "load"
    /\ UNCHANGED <<file, Locals, last_input>>
    /\ IF ~file.exists
       THEN \* FileNotFoundError is caught
            /\ out' = Message("The file 'inventory.txt' was not found.")
            /\ pc' = "menu"
            /\ UNCHANGED <<shoe_list, heap>>
       ELSE IF file.lines = <<>>
       THEN \* next(file) on a file without lines
            /\ out' = Message("StopIteration")
            /\ pc' = "crashed"
            /\ UNCHANGED <<shoe_list, heap>>
       ELSE LET read == read_lines(Tail(file.lines), shoe_list, heap)
            IN  /\ shoe_list' = read.list
                /\ heap' = read.heap
                /\ IF read.raised = "none"
                   THEN pc' = "menu" /\ out' = out
                   ELSE pc' = "crashed" /\ out' = Message(read.raised)

\* the selection read at the menu prompt is the integer n
Selected(inp, n) == int_valid(inp) /\ int_value(inp) = n

\* int(input(...)) raises ValueError, or the integer is none of 1..7
menu_invalid ==
    /\ pc = "menu"
    /\ \E inp \in MenuInputs :
        /\ last_input' = inp
        /\ IF ~int_valid(inp)
           THEN out' = Message("Invalid input. Select a valid number")
           ELSE /\ int_value(inp) \notin 1..7
                /\ out' = Message("Invalid input given. Select a valid number")
    /\ pc' = "menu"
    /\ UNCHANGED <<Data, Locals>>

\* selection 1
view_all ==
    /\ pc = "menu"
    /\ \E inp \in MenuInputs : Selected(inp, 1) /\ last_input' = inp
    /\ out' = Shown("table", [i \in DOMAIN shoe_list |-> str_shoe(heap[shoe_list[i]])])
    /\ pc' = "menu"
    /\ UNCHANGED <<Data, Locals>>

\* selection 2: capture_shoes() up to its first prompt
capture_shoes ==
    /\ pc = "menu"
    /\ Len(shoe_list) < MaxShoes
    /\ \E inp \in MenuInputs : Selected(inp, 2) /\ last_input' = inp
    /\ out' = Message("Enter 'x' at any time to cancel.")
    /\ pc' = "country"
    /\ UNCHANGED <<Data, Locals>>

capture_country ==
    /\ pc = "country"
    /\ \E inp \in CountryInputs :
        LET text == title(strip(inp))
        IN  /\ last_input' = inp
            /\ IF cancel_capture(text)
               THEN /\ out' = Message("Capture cancelled.")
                    /\ pc' = "menu"
                    /\ NoLocals
               ELSE IF text = <<>> \/ ~isalpha(replace_spaces(text))
               THEN /\ out' = Message("Invalid country. Please enter only letters and spaces.")
                    /\ pc' = "country"
                    /\ UNCHANGED Locals
               ELSE /\ country' = text
                    /\ pc' = "code"
                    /\ UNCHANGED <<out, code, product, cost, lowest_stock_shoe>>
    /\ UNCHANGED Data

capture_code ==
    /\ pc = "code"
    /\ \E inp \in CodeInputs :
        LET text == upper(strip(inp))
        IN  /\ last_input' = inp
            /\ IF cancel_capture(text)
               THEN /\ out' = Message("Capture cancelled.")
                    /\ pc' = "menu"
                    /\ NoLocals
               ELSE IF ~fullmatch_SKU_digits(text)
               THEN /\ out' = Message("Invalid code format.")
                    /\ pc' = "code"
                    /\ UNCHANGED Locals
               ELSE /\ code' = text
                    /\ pc' = "product"
                    /\ UNCHANGED <<out, country, product, cost, lowest_stock_shoe>>
    /\ UNCHANGED Data

capture_product ==
    /\ pc = "product"
    /\ \E inp \in ProductInputs :
        LET text == title(strip(inp))
        IN  /\ last_input' = inp
            /\ IF cancel_capture(text)
               THEN /\ out' = Message("Capture cancelled.")
                    /\ pc' = "menu"
                    /\ NoLocals
               ELSE IF text = <<>> \/ ~isalpha(replace_spaces(text))
               THEN /\ out' = Message("Invalid product. Please enter only letters and spaces.")
                    /\ pc' = "product"
                    /\ UNCHANGED Locals
               ELSE /\ product' = text
                    /\ pc' = "cost"
                    /\ UNCHANGED <<out, country, code, cost, lowest_stock_shoe>>
    /\ UNCHANGED Data

capture_cost ==
    /\ pc = "cost"
    /\ \E inp \in CostInputs :
        LET cost_input == strip(inp)
        IN  /\ last_input' = inp
            /\ IF cancel_capture(cost_input)
               THEN /\ out' = Message("Capture cancelled.")
                    /\ pc' = "menu"
                    /\ NoLocals
               ELSE IF ~int_valid(cost_input)
               THEN /\ out' = Message("Error: Please enter a valid integer for cost")
                    /\ pc' = "cost"
                    /\ UNCHANGED Locals
               ELSE IF negative(int_value(cost_input))
               THEN /\ out' = Message("Error: Cost cannot be negative")
                    /\ pc' = "cost"
                    /\ UNCHANGED Locals
               ELSE /\ cost' = int_value(cost_input)
                    /\ pc' = "quantity"
                    /\ UNCHANGED <<out, country, code, product, lowest_stock_shoe>>
    /\ UNCHANGED Data

\* the last prompt of capture_shoes and, on a valid quantity, the append
capture_quantity ==
    /\ pc = "quantity"
    /\ \E inp \in QuantityInputs :
        LET quantity_input == strip(inp)
        IN  /\ last_input' = inp
            /\ IF cancel_capture(quantity_input)
               THEN /\ out' = Message("Capture cancelled.")
                    /\ pc' = "menu"
                    /\ NoLocals
                    /\ UNCHANGED Data
               ELSE IF ~int_valid(quantity_input)
               THEN /\ out' = Message("Error: Please enter a valid integer for quantity.")
                    /\ pc' = "quantity"
                    /\ UNCHANGED <<Data, Locals>>
               ELSE IF negative(int_value(quantity_input))
               THEN /\ out' = Message("Error: Quantity cannot be negative.")
                    /\ pc' = "quantity"
                    /\ UNCHANGED <<Data, Locals>>
               ELSE LET r == new_ref(heap)
                    IN  /\ heap' = alloc(heap, r, Shoe(country, code, product, cost,
                                                       int_value(quantity_input)))
                        /\ shoe_list' = list_append(shoe_list, r)
                        /\ out' = Message("Shoe successfully captured.")
                        /\ pc' = "menu"
                        /\ NoLocals
                        /\ UNCHANGED file

\* selection 3: re_stock() up to its confirmation prompt
re_stock ==
    /\ pc = "menu"
    /\ \E inp \in MenuInputs : Selected(inp, 3) /\ last_input' = inp
    /\ IF shoe_list = <<>>
       THEN \* shoe_list_ascending[0] on an empty list
            Raise("IndexError")
       ELSE LET shoe_list_ascending == sorted(shoe_list, FALSE)
            IN  /\ lowest_stock_shoe' = shoe_list_ascending[1]
                /\ out' = Shown("The following shoe has the lowest stock: ",
                                <<str_shoe(heap[shoe_list_ascending[1]])>>)
                /\ pc' = "confirm"
                /\ UNCHANGED <<Data, country, code, product, cost>>

re_stock_confirm ==
    /\ pc = "confirm"
    /\ \E inp \in ConfirmInputs :
        /\ last_input' = inp
        /\ IF upper(strip(inp)) = <<"Y">>
           THEN /\ pc' = "amount"
                /\ UNCHANGED <<out, Locals>>
           ELSE /\ out' = Message("Restock cancelled")
                /\ pc' = "menu"
                /\ NoLocals
    /\ UNCHANGED Data

\* the amount prompt and, on a valid amount, the update and the rewrite
re_stock_amount ==
    /\ pc = "amount"
    /\ \E restock_input \in AmountInputs :
        /\ last_input' = restock_input
        /\ IF lower(restock_input) = <<"x">>
           THEN /\ out' = Message("Restock cancelled.")
                /\ pc' = "menu"
                /\ NoLocals
                /\ UNCHANGED Data
           ELSE IF ~int_valid(restock_input)
           THEN /\ out' = Message("Error: Please enter a valid integer.")
                /\ pc' = "amount"
                /\ UNCHANGED <<Data, Locals>>
           ELSE IF negative(int_value(restock_input))
           THEN /\ out' = Message("Error: Restock amount cannot be negative.")
                /\ pc' = "amount"
                /\ UNCHANGED <<Data, Locals>>
           ELSE LET restock_amount == int_value(restock_input)
                    updated == [heap EXCEPT ![lowest_stock_shoe].quantity =
                                                @ + restock_amount]
                    i == find_first(shoe_list, updated, updated[lowest_stock_shoe].code)
                    list == [shoe_list EXCEPT ![i] = lowest_stock_shoe]
                IN  /\ updated[lowest_stock_shoe].quantity <= MaxQuantity
                    /\ shoe_list' = list
                    /\ heap' = collect(updated, list)
                    /\ file' = FileOf(inventory_lines(list, updated))
                    /\ out' = Message("Inventory file updated successfully")
                    /\ pc' = "menu"
                    /\ NoLocals

\* selection 4: search_shoe() up to its prompt
search_shoe ==
    /\ pc = "menu"
    /\ \E inp \in MenuInputs : Selected(inp, 4) /\ last_input' = inp
    /\ pc' = "search"
    /\ UNCHANGED <<Data, Locals, out>>

search_shoe_scan ==
    /\ pc = "search"
    /\ \E inp \in SearchInputs :
        LET shoe_code_input == upper(strip(inp))
            i == find_first(shoe_list, heap, shoe_code_input)
        IN  /\ last_input' = inp
            /\ IF i # 0
               THEN out' = Shown("Shoe found!", <<str_shoe(heap[shoe_list[i]])>>)
               ELSE out' = Message("Invalid code or shoe not found")
    /\ pc' = "menu"
    /\ UNCHANGED <<Data, Locals>>

\* selection 5
value_per_item ==
    /\ pc = "menu"
    /\ \E inp \in MenuInputs : Selected(inp, 5) /\ last_input' = inp
    /\ out' = Shown("Total value for: ",
                    [i \in DOMAIN shoe_list |->
                        [code |-> heap[shoe_list[i]].code,
                         value |-> format_cost(heap[shoe_list[i]].cost
                                               * heap[shoe_list[i]].quantity)]])
    /\ pc' = "menu"
    /\ UNCHANGED <<Data, Locals>>

\* selection 6
highest_qty ==
    /\ pc = "menu"
    /\ \E inp \in MenuInputs : Selected(inp, 6) /\ last_input' = inp
    /\ IF shoe_list = <<>>
       THEN \* shoe_list_descending[0] on an empty list
            Raise("IndexError")
       ELSE LET shoe_list_descending == sorted(shoe_list, TRUE)
            IN  /\ out' = Shown("The following item is on sale:",
                                <<str_shoe(heap[shoe_list_descending[1]])>>)
                /\ pc' = "menu"
                /\ UNCHANGED <<Data, Locals>>

\* selection 7
quit ==
    /\ pc = "menu"
    /\ \E inp \in MenuInputs : Selected(inp, 7) /\ last_input' = inp
    /\ out' = Message("Goodbye!")
    /\ pc' = "done"
    /\ UNCHANGED <<Data, Locals>>

Next ==
    \/ read_shoes_data
    \/ menu_invalid
    \/ view_all
    \/ capture_shoes
    \/ capture_country
    \/ capture_code
    \/ capture_product
    \/ capture_cost
    \/ capture_quantity
    \/ re_stock
    \/ re_stock_confirm
    \/ re_stock_amount
    \/ search_shoe
    \/ search_shoe_scan
    \/ value_per_item
    \/ highest_qty
    \/ quit

Spec == Init /\ [][Next]_vars

----------------------------------------------------------------------------
(* Properties *)

Captured == "Shoe successfully captured."
Updated == "Inventory file updated successfully"
Found == "Shoe found!"
NotFound == "Invalid code or shoe not found"
OnSale == "The following item is on sale:"

Prompts == {"country", "code", "product", "cost", "quantity", "amount"}
LoopStates == Prompts \cup {"menu", "confirm", "search"}
CancelSentinels == { <<"x">>, <<"X">> }

NonNegative(store) ==
    \A i \in DOMAIN store : store[i].cost >= 0 /\ store[i].quantity >= 0

\* a full scan: the smallest index holding the minimum, or the maximum, quantity
FirstMinIndex(store) ==
    CHOOSE i \in DOMAIN store :
        /\ \A j \in DOMAIN store : store[i].quantity <= store[j].quantity
        /\ \A j \in 1..(i - 1) : store[j].quantity # store[i].quantity
FirstMaxIndex(store) ==
    CHOOSE i \in DOMAIN store :
        /\ \A j \in DOMAIN store : store[i].quantity >= store[j].quantity
        /\ \A j \in 1..(i - 1) : store[j].quantity # store[i].quantity

\* the step just taken is a restock confirmed and given a valid amount
ConfirmedRestock == pc = "amount" /\ pc' = "menu" /\ out'.msg = Updated
\* the step just taken is a successful add
SuccessfulAdd == pc = "quantity" /\ pc' = "menu" /\ out'.msg = Captured

RestockChangesOnlyTarget ==
    ConfirmedRestock =>
        LET t == FirstMinIndex(Store)
            a == int_value(last_input')
        IN  /\ Len(Store') = Len(Store)
            /\ Store'[t] = [Store[t] EXCEPT !.quantity = @ + a]
            /\ \A i \in DOMAIN Store : i # t => Store'[i] = Store[i]

\* C1: a confirmed restock with amount a adds exactly a to the quantity of the
\* selected lowest-quantity Record and leaves the Record at every other
\* position of the store as it was.
C1_RestockChangesOnlyTarget == [][RestockChangesOnlyTarget]_vars

\* the store that loading the file into an empty list yields
Reloaded ==
    LET read == read_lines(Tail(file.lines), <<>>, EmptyHeap)
    IN  [i \in DOMAIN read.list |-> read.heap[read.list[i]]]

\* C2: right after a confirmed restock the file holds the header and one line
\* per Record of the store, and loading it yields a store equal to the one in
\* memory, Records added before the restock included.
C2_RestockThenReload ==
    out.msg = Updated =>
        /\ file.exists
        /\ Len(file.lines) = Len(Store) + 1
        /\ file.lines[1] = Header
        /\ \A i \in 2..Len(file.lines) : line_raises(file.lines[i]) = "none"
        /\ Reloaded = Store

\* a restock has been confirmed while the store held a Record added in memory
C2_Witness ==
    /\ out.msg = Updated
    /\ Len(Store) = 2
    /\ \E i \in DOMAIN Store : Store[i].country = <<"Z","a">>
    /\ \E i \in DOMAIN Store : Store[i].country # <<"Z","a">>

\* C3: the program never ends in an error state once the menu loop has read
\* a selection.
C3_NoCrashInMenuLoop == ~(pc = "crashed" /\ last_input # NoInput)

\* C4: (as stated) after a successful add or a confirmed restock every Record
\* has cost >= 0 and quantity >= 0, whatever the file contained.
C4_NonNegativeAfterAddOrRestock ==
    out.msg \in {Captured, Updated} => NonNegative(Store)

NonNegativeKept == (pc # "load" /\ NonNegative(Store)) => NonNegative(Store')

\* C4: (amended) once the loaded store holds no negative cost or quantity, no
\* step of the program (add, restock or any other) brings one in.
C4_NonNegativePreserved == [][NonNegativeKept]_vars

\* an add of quantity 0 has succeeded on a store without negative values
C4_Witness ==
    /\ out.msg = Captured
    /\ NonNegative(Store)
    /\ Store[Len(Store)].quantity = 0
    /\ Store[Len(Store)].cost = 10

CancelLeavesStoreAndFile ==
    pc \in Prompts =>
        /\ (last_input' \in CancelSentinels => (pc' = "menu" /\ UNCHANGED Data))
        /\ (pc' \in Prompts => UNCHANGED Data)

\* C5: x or X at any add prompt or at the restock-amount prompt returns to the
\* menu, and no step taken at those prompts before it changed the store or
\* the file.
C5_CancelLeavesStoreAndFile == [][CancelLeavesStoreAndFile]_vars

\* an add was cancelled with X on a store that holds Records
C5_Witness ==
    /\ pc = "menu"
    /\ out.msg = "Capture cancelled."
    /\ last_input = <<"X">>
    /\ Len(shoe_list) >= 1

\* C6: restock-lowest selects the Record at the smallest index holding the
\* minimum quantity, highest-quantity reports the Record at the smallest index
\* holding the maximum quantity.
C6_SelectionMatchesScan ==
    /\ pc \in {"confirm", "amount"} =>
           lowest_stock_shoe = shoe_list[FirstMinIndex(Store)]
    /\ out.msg = OnSale =>
           out.shoes = <<str_shoe(Store[FirstMaxIndex(Store)])>>

\* the maximum is held at indices 2 and 3, and index 2 was reported
C6_Witness ==
    /\ out.msg = OnSale
    /\ Len(Store) = 3
    /\ Store[1].quantity < Store[2].quantity
    /\ Store[2].quantity = Store[3].quantity
    /\ FirstMaxIndex(Store) = 2

\* the first index of the store whose code is the text c, 0 when there is none
FirstWithCode(store, c) ==
    IF \E i \in DOMAIN store : store[i].code = c
    THEN CHOOSE i \in DOMAIN store :
             store[i].code = c /\ \A j \in 1..(i - 1) : store[j].code # c
    ELSE 0

\* a search step that looked for the text c reported what the store holds
SearchReports(c) ==
    /\ pc' = "menu"
    /\ UNCHANGED Data
    /\ IF FirstWithCode(Store, c) # 0
       THEN out' = Shown(Found, <<str_shoe(Store[FirstWithCode(Store, c)])>>)
       ELSE out'.msg = NotFound

SearchByEnteredCode == pc = "search" => SearchReports(last_input')
SearchByNormalisedCode == pc = "search" => SearchReports(upper(strip(last_input')))

\* C7: (as stated) a search with input c reports the first Record whose code
\* equals c, or not-found when no Record carries c.
C7_SearchByEnteredCode == [][SearchByEnteredCode]_vars

\* C7: (amended) a search with input c reports the first Record whose code
\* equals c stripped and upper-cased, or not-found when there is none.
C7_SearchByNormalisedCode == [][SearchByNormalisedCode]_vars

\* " sku2 " was searched in a store holding two different added Records
\* with the code SKU2, and the first was reported
C7_Witness ==
    /\ out.msg = Found
    /\ last_input = <<" ","s","k","u","2"," ">>
    /\ Len(Store) = 2
    /\ Store[1].code = <<"S","K","U","2">>
    /\ Store[2].code = <<"S","K","U","2">>
    /\ Store[1] # Store[2]
    /\ out.shoes = <<str_shoe(Store[1])>>

FileChangesOnlyInRestock ==
    /\ (file' # file) =>
          (pc = "amount" /\ int_valid(last_input') /\ int_value(last_input') >= 0)
    /\ SuccessfulAdd =>
          /\ file' = file
          /\ Store' = Append(Store, Shoe(country, code, product, cost,
                                         int_value(last_input')))
          /\ SubSeq(shoe_list', 1, Len(shoe_list)) = shoe_list
    /\ (pc = "confirm" /\ pc' = "menu") => UNCHANGED Data
    /\ (pc \in {"menu", "search"}) => UNCHANGED Data

\* C8: the file changes only in a restock step given a valid amount >= 0; a
\* successful add appends one Record and keeps the file; a declined restock
\* and every menu operation keep the store and the file.
C8_FileChangesOnlyInRestock == [][FileChangesOnlyInRestock]_vars

\* an add has succeeded and the file still holds its one loaded line
C8_Witness ==
    /\ out.msg = Captured
    /\ Len(shoe_list) = 2
    /\ file = FileOf(<<Header, Line_ZA>>)

\* the texts int() reads as n: plain, zero-padded, or with a plus sign
Numerals(n) ==
    {int_str(n)}
    \cup (IF n < 0 THEN {<<"-","0">> \o nat_str(0 - n)}
          ELSE {<<"0">> \o nat_str(n), <<"+">> \o nat_str(n)})

\* the line, white space at its ends aside, spells the five fields of shoe
LineSpells(line, shoe) ==
    \E c \in Numerals(shoe.cost), q \in Numerals(shoe.quantity) :
        strip(line) = shoe.country \o <<",">> \o shoe.code \o <<",">>
                      \o shoe.product \o <<",">> \o c \o <<",">> \o q

\* C9: loading a header and N valid lines yields N Records in file order, each
\* with the fields of its line; loading without a file yields the empty store.
C9_LoadYieldsFileRecords ==
    (pc # "load" /\ last_input = NoInput) =>
        /\ file \in ValidFiles =>
              /\ pc = "menu"
              /\ Len(Store) = Len(file.lines) - 1
              /\ \A i \in DOMAIN Store : LineSpells(file.lines[i + 1], Store[i])
        /\ ~file.exists => pc = "menu" /\ Store = <<>>

\* a padded line with a zero-padded cost and a negative quantity was loaded
C9_Witness ==
    /\ pc = "menu"
    /\ last_input = NoInput
    /\ Len(Store) = 2
    /\ Store[2] = Shoe(<<"U","s">>, <<"s","k","u","2">>, <<"F","i","l","a">>, 3, -2)

OnlyQuitEndsLoop ==
    /\ (pc = "menu" /\ ~(int_valid(last_input') /\ int_value(last_input') \in 1..7))
          => (pc' = "menu" /\ UNCHANGED Data)
    /\ (pc \in LoopStates /\ pc' \notin LoopStates)
          => (pc = "menu" /\ pc' = "done" /\ Selected(last_input', 7))
    /\ pc # "done"

\* C10: an invalid selection changes nothing and leads back to the menu; only
\* selection 7 ends the loop; after it no step is taken.
C10_OnlyQuitEndsLoop == [][OnlyQuitEndsLoop]_vars

====
